---- MODULE Spec2Model ----
(***************************************************************************)
(* Model of the terminal countdown timer in src/timer.go: the bubbletea    *)
(* model struct, its Init command, and the Update reducer.                 *)
(*                                                                         *)
(* Durations are counted in whole seconds (time.Second = 1 unit); every    *)
(* duration the program builds is a whole number of seconds.               *)
(* The text input's value is a sequence of one-character strings.          *)
(***************************************************************************)
EXTENDS Integers, Sequences, FiniteSets, TLC

\* ---------------------------------------------------------------- bounds
\* Longest buffer explored (the widget itself stops at CharLimit).
MaxLen == 2
\* Ticks counted past the end of the countdown before the counter saturates.
MaxOverrun == 2
\* Half-width of the windows of durations the view is applied to.
ViewWindow == 60

\* ------------------------------------------------------ program constants
CharLimit == 5
Second == 1
Minute == 60
Hour == 3600
\* progress.WithWidth(40), reused as the literal 40 of paddingWidth.
BarWidth == 40
\* Largest minutes count whose product with time.Minute (6 * 10^10 ns)
\* still fits the signed 64-bit time.Duration: (2^63 - 1) \div (6 * 10^10).
MaxMinutesNoWrap == 153722867
ErrMsg == "Please enter a valid positive number"

inputtingTime == "inputtingTime"
running == "running"

\* Characters a key press can deliver in the explored runs.
Chars == {"0", "1", "-", "+", " ", "a", "."}
Digits == {"0", "1", "2", "3", "4", "5", "6", "7", "8", "9"}

VARIABLES
    textInput,      \* m.textInput.Value()
    state,          \* m.state
    duration,       \* m.duration
    timeRemaining,  \* m.timeRemaining
    done,           \* m.done
    err,            \* m.err
    scheduled,      \* tea.Tick timers armed and not yet fired
    queued,         \* tickMsg values delivered and not yet passed to Update
    quit,           \* Update has returned tea.Quit
    lastEvent,        \* kind of the event the loop handled last
    submitted,      \* history: minutes accepted by the successful Enter
    ticksRunning,   \* history: tickMsg handled since state = running
    frame           \* what a call of model.View returned (SpecView)

vars == <<textInput, state, duration, timeRemaining, done, err,
          scheduled, queued, quit, lastEvent, submitted, ticksRunning, frame>>

fields == <<textInput, state, duration, timeRemaining, done, err>>

Max(a, b) == IF a >= b THEN a ELSE b
Min(a, b) == IF a <= b THEN a ELSE b

\* ------------------------------------------------------------ pure parts
RECURSIVE TrimLeft(_)
TrimLeft(s) ==
    IF s # <<>> /\ Head(s) = " " THEN TrimLeft(Tail(s)) ELSE s

RECURSIVE TrimRight(_)
TrimRight(s) ==
    IF s # <<>> /\ s[Len(s)] = " " THEN TrimRight(SubSeq(s, 1, Len(s) - 1)) ELSE s

TrimSpace(s) == TrimRight(TrimLeft(s))

DigitVal(c) ==
    CASE c = "0" -> 0 [] c = "1" -> 1 [] c = "2" -> 2 [] c = "3" -> 3
      [] c = "4" -> 4 [] c = "5" -> 5 [] c = "6" -> 6 [] c = "7" -> 7
      [] c = "8" -> 8 [] c = "9" -> 9

RECURSIVE AtoiDigits(_, _)
AtoiDigits(s, n) ==
    IF s = <<>> THEN n ELSE AtoiDigits(Tail(s), n * 10 + DigitVal(Head(s)))

\* strconv.Atoi on a short string: an optional sign, then digits only.
\* The result is [ok |-> TRUE, n |-> value] or [ok |-> FALSE, n |-> 0].
Atoi(s0) ==
    LET signed == s0 # <<>> /\ Head(s0) \in {"-", "+"}
        s      == IF signed THEN Tail(s0) ELSE s0
    IN  IF s = <<>> \/ \E i \in 1..Len(s) : s[i] \notin Digits
        THEN [ok |-> FALSE, n |-> 0]
        ELSE [ok |-> TRUE,
              n  |-> IF Head(s0) = "-" THEN 0 - AtoiDigits(s, 0) ELSE AtoiDigits(s, 0)]

\* time.Duration(minutes) * time.Minute; -1 stands for a product that left
\* the int64 range.
MinutesAsSeconds(minutes) == minutes * Second
MinutesToDuration(minutes) ==
    IF minutes <= MaxMinutesNoWrap THEN minutes * Minute ELSE 0 - 1

\* if err != nil || minutes <= 0
RejectedNegOnly(res) == ~res.ok \/ res.n < 0
Rejected(res) == ~res.ok \/ res.n <= 0

\* if m.state == inputtingTime, the guard of the Enter branch
AcceptsEnterAlways == TRUE
AcceptsEnter == state = inputtingTime

\* if m.state == running && m.timeRemaining > 0
ShouldCountNoGuard == TRUE
ShouldCount == state = running /\ timeRemaining > 0

\* m.timeRemaining -= time.Second
CountUp(r) == r + Second
CountdownDouble(r) == r - 2 * Second
Countdown(r) == r - Second

\* if m.timeRemaining <= 0
ReachedZeroStrict(r) == r < 0
ReachedZero(r) == r <= 0

\* m.done after the inner if of the tick branch
DoneAlways(r, d) == TRUE
DoneAfter(r, d) == IF ReachedZero(r) THEN TRUE ELSE d

\* m.timeRemaining after the inner if of the tick branch
RemainingAfter(r) == IF ReachedZero(r) THEN 0 ELSE r

\* Number of tea.Tick commands the tick branch returns.
TickCmdsRunningOnly == IF state = running /\ timeRemaining > 0 THEN 1 ELSE 0
TickCmds == 1

\* ------------------------------------------------------------- the view
FmtDigit(d) == <<"0", "1", "2", "3", "4", "5", "6", "7", "8", "9">>[d + 1]

\* fmt's %d of a non-negative integer.
RECURSIVE FmtInt(_)
FmtInt(n) ==
    IF n < 10 THEN <<FmtDigit(n)>>
    ELSE Append(FmtInt(n \div 10), FmtDigit(n % 10))

\* fmt's %02d.
Fmt02d(n) ==
    IF n < 0 THEN <<"-">> \o FmtInt(0 - n)
    ELSE IF n < 10 THEN <<"0">> \o FmtInt(n)
    ELSE FmtInt(n)

\* Go's integer division, which truncates toward zero.
Quot(a, b) == IF a >= 0 THEN a \div b ELSE 0 - ((0 - a) \div b)

\* formatDuration; d.Round(time.Second) leaves a whole number of seconds
\* as it is.
formatDurationKeepHours(d) ==
    LET h == Quot(d, Hour)
        m == Quot(d, Minute)
        s == Quot(d - m * Minute, Second)
    IN  IF h > 0
        THEN Fmt02d(h) \o <<":">> \o Fmt02d(m) \o <<":">> \o Fmt02d(s)
        ELSE Fmt02d(m) \o <<":">> \o Fmt02d(s)
formatDuration(d) ==
    LET h  == Quot(d, Hour)
        d1 == d - h * Hour
        m  == Quot(d1, Minute)
        d2 == d1 - m * Minute
        s  == Quot(d2, Second)
    IN  IF h > 0
        THEN Fmt02d(h) \o <<":">> \o Fmt02d(m) \o <<":">> \o Fmt02d(s)
        ELSE Fmt02d(m) \o <<":">> \o Fmt02d(s)

\* float64(x) / float64(y): the quotient num/den, or the IEEE result of a
\* division by zero.
FloatDiv(x, y) ==
    IF y # 0 THEN [kind |-> "finite", num |-> x, den |-> y]
    ELSE IF x = 0 THEN [kind |-> "NaN", num |-> 0, den |-> 0]
    ELSE IF x > 0 THEN [kind |-> "+Inf", num |-> 0, den |-> 0]
    ELSE [kind |-> "-Inf", num |-> 0, den |-> 0]

\* fmt's %.1f of a non-negative count of tenths.
FmtTenths(t) == FmtInt(t \div 10) \o <<".">> \o <<FmtDigit(t % 10)>>

\* Sprintf("%.1f%%", percentComplete*100) for 0 <= num. A quotient that
\* lies exactly half way between two tenths may print either of them,
\* depending on the rounding of the two float64 operations before it.
PercentStrings(f) ==
    IF f.kind = "finite"
    THEN LET n  == 1000 * f.num
             q  == n \div f.den
             r2 == 2 * (n % f.den)
             ts == IF r2 < f.den THEN {q}
                   ELSE IF r2 > f.den THEN {q + 1}
                   ELSE {q, q + 1}
         IN  {FmtTenths(t) \o <<"%">> : t \in ts}
    ELSE IF f.kind = "NaN" THEN {<<"N", "a", "N", "%">>}
    ELSE IF f.kind = "+Inf" THEN {<<"+", "I", "n", "f", "%">>}
    ELSE {<<"-", "I", "n", "f", "%">>}

NoFraction == [kind |-> "none", num |-> 0, den |-> 0]

\* Nothing drawn yet.
NoFrame ==
    [view |-> "none", input |-> <<>>, errLine |-> "", timeStr |-> <<>>,
     fraction |-> NoFraction, percentage |-> <<>>, paddingWidth |-> 0,
     doneLine |-> FALSE, elapsedStr |-> <<>>, totalStr |-> <<>>,
     elapsedSecs |-> <<>>, totalSecs |-> <<>>]

\* The frames model.View can return for a model with these fields.
Frames(st, buf, dur, rem, dn, e) ==
    IF st = inputtingTime
    THEN {[NoFrame EXCEPT !.view = "input", !.input = buf, !.errLine = e]}
    ELSE LET elapsed         == dur - rem
             percentComplete == FloatDiv(elapsed, dur)
         IN  {[view         |-> "running",
               input        |-> <<>>,
               errLine      |-> "",
               timeStr      |-> formatDuration(rem),
               fraction     |-> percentComplete,
               percentage   |-> pct,
               paddingWidth |-> BarWidth - Len(pct),
               doneLine     |-> dn,
               elapsedStr   |-> formatDuration(elapsed),
               totalStr     |-> formatDuration(dur),
               elapsedSecs  |-> FmtInt(elapsed),
               totalSecs    |-> FmtInt(dur)] : pct \in PercentStrings(percentComplete)}

\* ------------------------------------------------------------------ Init
\* initialModel() followed by the command batch of model.Init.
Init ==
    /\ textInput = <<>>
    /\ state = inputtingTime
    /\ duration = 0
    /\ timeRemaining = 0
    /\ done = FALSE
    /\ err = ""
    /\ scheduled = 1
    /\ queued = 0
    /\ quit = FALSE
    /\ lastEvent = "none"
    /\ submitted = 0
    /\ ticksRunning = 0
    /\ frame = NoFrame

\* The timer armed by tea.Tick fires and its tickMsg reaches the event loop.
TickFire ==
    /\ ~quit
    /\ scheduled > 0
    /\ scheduled' = scheduled - 1
    /\ queued' = queued + 1
    /\ lastEvent' = "timer"
    /\ UNCHANGED <<fields, quit, submitted, ticksRunning, frame>>

\* case tea.KeyCtrlC, tea.KeyEsc
UpdateKeyCancelReset ==
    /\ ~quit
    /\ quit' = TRUE
    /\ lastEvent' = "cancel"
    /\ textInput' = <<>>
    /\ state' = inputtingTime
    /\ duration' = 0
    /\ timeRemaining' = 0
    /\ done' = FALSE
    /\ err' = ""
    /\ UNCHANGED <<scheduled, queued, submitted, ticksRunning>>
    /\ UNCHANGED frame
UpdateKeyCancel ==
    /\ ~quit
    /\ quit' = TRUE
    /\ lastEvent' = "cancel"
    /\ UNCHANGED <<fields, scheduled, queued, submitted, ticksRunning>>
    /\ UNCHANGED frame

\* case tea.KeyEnter
UpdateKeyEnterEarlyAssign ==
    /\ ~quit
    /\ lastEvent' = "enter"
    /\ IF AcceptsEnter
       THEN LET input == TrimSpace(textInput)
                res   == Atoi(input)
            IN  IF Rejected(res)
                THEN /\ err' = ErrMsg
                     /\ duration' = MinutesToDuration(res.n)
                     /\ timeRemaining' = MinutesToDuration(res.n)
                     /\ UNCHANGED <<textInput, state, done, submitted>>
                ELSE /\ duration' = MinutesToDuration(res.n)
                     /\ timeRemaining' = MinutesToDuration(res.n)
                     /\ state' = running
                     /\ err' = ""
                     /\ submitted' = res.n
                     /\ UNCHANGED <<textInput, done>>
       ELSE UNCHANGED <<fields, submitted>>
    /\ UNCHANGED <<scheduled, queued, quit, ticksRunning>>
    /\ UNCHANGED frame
UpdateKeyEnter ==
    /\ ~quit
    /\ lastEvent' = "enter"
    /\ IF AcceptsEnter
       THEN LET input == TrimSpace(textInput)
                res   == Atoi(input)
            IN  IF Rejected(res)
                THEN /\ err' = ErrMsg
                     /\ UNCHANGED <<textInput, state, duration, timeRemaining,
                                    done, submitted>>
                ELSE /\ duration' = MinutesToDuration(res.n)
                     /\ timeRemaining' = MinutesToDuration(res.n)
                     /\ state' = running
                     /\ err' = ""
                     /\ submitted' = res.n
                     /\ UNCHANGED <<textInput, done>>
       ELSE UNCHANGED <<fields, submitted>>
    /\ UNCHANGED <<scheduled, queued, quit, ticksRunning>>
    /\ UNCHANGED frame

\* case tickMsg
UpdateTick ==
    /\ ~quit
    /\ queued > 0
    /\ lastEvent' = "tick"
    /\ IF ShouldCount
       THEN LET r == Countdown(timeRemaining)
            IN  /\ timeRemaining' = RemainingAfter(r)
                /\ done' = DoneAfter(r, done)
       ELSE UNCHANGED <<timeRemaining, done>>
    /\ queued' = queued - 1
    /\ scheduled' = scheduled + TickCmds
    /\ ticksRunning' = IF state = running
                       THEN Min(ticksRunning + 1, submitted * Minute + MaxOverrun)
                       ELSE ticksRunning
    /\ UNCHANGED <<textInput, state, duration, err, quit, submitted>>
    /\ UNCHANGED frame

\* A printable key: the text input appends it while it has room.
UpdateKeyRunesClearErr(c) ==
    /\ ~quit
    /\ lastEvent' = "runes"
    /\ IF state = inputtingTime
       THEN /\ textInput' = IF Len(textInput) < CharLimit /\ Len(textInput) < MaxLen
                            THEN Append(textInput, c)
                            ELSE textInput
            /\ err' = ""
       ELSE UNCHANGED <<textInput, err>>
    /\ UNCHANGED <<state, duration, timeRemaining, done,
                   scheduled, queued, quit, submitted, ticksRunning>>
    /\ UNCHANGED frame
UpdateKeyRunes(c) ==
    /\ ~quit
    /\ lastEvent' = "runes"
    /\ IF state = inputtingTime
       THEN textInput' = IF Len(textInput) < CharLimit /\ Len(textInput) < MaxLen
                         THEN Append(textInput, c)
                         ELSE textInput
       ELSE UNCHANGED textInput
    /\ UNCHANGED <<state, duration, timeRemaining, done, err,
                   scheduled, queued, quit, submitted, ticksRunning>>
    /\ UNCHANGED frame

\* Backspace: the text input drops its last character.
UpdateKeyBackspace ==
    /\ ~quit
    /\ lastEvent' = "backspace"
    /\ IF state = inputtingTime
       THEN textInput' = IF textInput = <<>> THEN textInput
                         ELSE SubSeq(textInput, 1, Len(textInput) - 1)
       ELSE UNCHANGED textInput
    /\ UNCHANGED <<state, duration, timeRemaining, done, err,
                   scheduled, queued, quit, submitted, ticksRunning>>
    /\ UNCHANGED frame

\* Any other message (a key the widget ignores, a blink, a resize).
UpdateOther ==
    /\ ~quit
    /\ lastEvent' = "other"
    /\ UNCHANGED <<fields, scheduled, queued, quit, submitted, ticksRunning>>
    /\ UNCHANGED frame

Next ==
    \/ TickFire
    \/ UpdateKeyCancel
    \/ UpdateKeyEnter
    \/ UpdateTick
    \/ \E c \in Chars : UpdateKeyRunes(c)
    \/ UpdateKeyBackspace
    \/ UpdateOther

Spec == Init /\ [][Next]_vars

\* The clock fires every armed timer and the event loop hands every
\* delivered tickMsg to Update.
SpecFair == Spec /\ WF_vars(TickFire) /\ WF_vars(UpdateTick)

\* ----------------------------------------------------- the view on its own
\* Durations of the models the view is applied to: a zero model.duration,
\* one minute, ninety minutes and a hundred hours.
ViewDurations == {0, 1 * Minute, 90 * Minute, 6000 * Minute}

\* Values of timeRemaining around the places where the format changes.
ViewRemaining(d) ==
    {r \in UNION {(c - ViewWindow)..(c + ViewWindow) :
                    c \in {0, Hour, 10 * Hour, 100 * Hour, d}} :
        0 <= r /\ r <= d}

\* model values handed to View: the model as it is while inputtingTime, the
\* model as it is during a countdown, and a running model whose duration
\* is zero.
InitView ==
    /\ \/ /\ state = inputtingTime
          /\ textInput = <<>>
          /\ duration = 0
          /\ timeRemaining = 0
          /\ done = FALSE
          /\ err \in {"", ErrMsg}
       \/ /\ state = running
          /\ duration \in ViewDurations
          /\ textInput = IF duration = 0 THEN <<>> ELSE FmtInt(duration \div Minute)
          /\ timeRemaining \in ViewRemaining(duration)
          /\ done = (duration > 0 /\ timeRemaining = 0)
          /\ err = ""
    /\ scheduled = 1
    /\ queued = 0
    /\ quit = FALSE
    /\ lastEvent = "none"
    /\ submitted = duration \div Minute
    /\ ticksRunning = duration - timeRemaining
    /\ frame = NoFrame

\* func (m model) View() string
ViewCall ==
    /\ frame' \in Frames(state, textInput, duration, timeRemaining, done, err)
    /\ UNCHANGED <<fields, scheduled, queued, quit, lastEvent, submitted, ticksRunning>>

NextView == ViewCall

SpecView == InitView /\ [][NextView]_vars

\* ------------------------------------------------ notions the claims use
RECURSIVE Pow10(_)
Pow10(k) == IF k = 0 THEN 1 ELSE 10 * Pow10(k - 1)

\* Largest count of minutes a buffer of the explored length can spell.
MaxHeld == Pow10(Min(CharLimit, MaxLen)) - 1

DigitChar(d) == <<"0", "1", "2", "3", "4", "5", "6", "7", "8", "9">>[d + 1]

\* The decimal string of n >= 0, without sign or leading zeros.
RECURSIVE Decimal(_)
Decimal(n) ==
    IF n < 10 THEN <<DigitChar(n)>>
    ELSE Append(Decimal(n \div 10), DigitChar(n % 10))

\* p is blanks, then at most one "+", then zeros.
IsPositivePrefix(p) ==
    \E a \in 0..Len(p) : \E b \in a..Len(p) :
        /\ \A q \in 1..a : p[q] = " "
        /\ b = a \/ (b = a + 1 /\ p[b] = "+")
        /\ \A q \in (b + 1)..Len(p) : p[q] = "0"

\* buf spells a positive integer: a decimal string of some n >= 1, possibly
\* after blanks, a plus sign and leading zeros, possibly before blanks.
DenotesPositive(buf) ==
    \E i \in 1..Len(buf) : \E j \in i..Len(buf) :
        /\ \E n \in Pow10(j - i)..(Pow10(j - i + 1) - 1) : SubSeq(buf, i, j) = Decimal(n)
        /\ IsPositivePrefix(SubSeq(buf, 1, i - 1))
        /\ \A q \in (j + 1)..Len(buf) : buf[q] = " "

TextEdits == {"runes", "backspace"}

\* ----------------------------------------------------------------- claims

\* C1: an Enter while inputtingTime whose buffer is the decimal string of a
\* positive integer n moves to running with duration = timeRemaining =
\* n minutes (n * 60 seconds, inside the int64 range) and err cleared,
\* whatever came before.
C1_SubmitValid ==
    [][(lastEvent' = "enter" /\ state = inputtingTime)
        => \A n \in 1..MaxHeld :
            textInput = Decimal(n)
            => /\ state' = running
               /\ duration' = n * 60
               /\ timeRemaining' = n * 60
               /\ err' = ""
               /\ n <= MaxMinutesNoWrap
               /\ Pow10(CharLimit) - 1 <= MaxMinutesNoWrap]_vars

C1_Witness ==
    /\ lastEvent = "enter"
    /\ state = running
    /\ textInput = <<"1", "0">>
    /\ duration = 600
    /\ timeRemaining = 600
    /\ err = ""

\* C2: an Enter while inputtingTime whose buffer does not spell a positive
\* integer sets err to the message, stays in inputtingTime and leaves the
\* buffer, duration, timeRemaining and done as they were.
C2_SubmitInvalid ==
    [][(lastEvent' = "enter" /\ state = inputtingTime /\ ~DenotesPositive(textInput))
        => /\ err' = "Please enter a valid positive number"
           /\ err' # ""
           /\ state' = inputtingTime
           /\ UNCHANGED <<textInput, duration, timeRemaining, done>>]_vars

C2_Witness ==
    /\ lastEvent = "enter"
    /\ state = inputtingTime
    /\ textInput = <<"-", "1">>
    /\ err = ErrMsg
    /\ duration = 0

\* C3: k ticks handled in state running after a submission of n minutes
\* leave timeRemaining = max(0, n * 60 - k); done is false while k < n * 60
\* and true from k = n * 60 on.
C3_CountdownValue ==
    state = running =>
        /\ timeRemaining = Max(0, submitted * 60 - ticksRunning)
        /\ done <=> (ticksRunning >= submitted * 60)

C3_Witness ==
    /\ state = running
    /\ submitted = 1
    /\ ticksRunning = 60
    /\ timeRemaining = 0
    /\ done

\* C4: once timeRemaining is 0 in state running, every later event keeps
\* timeRemaining = 0 and done = TRUE; done is never reset and timeRemaining
\* never becomes negative.
C4_ZeroIsStable ==
    [][/\ (state = running /\ timeRemaining = 0)
            => (timeRemaining' = 0 /\ done')
       /\ done => done'
       /\ timeRemaining' >= 0]_vars

C4_Witness ==
    /\ state = running
    /\ timeRemaining = 0
    /\ done
    /\ lastEvent = "tick"
    /\ ticksRunning = submitted * 60 + MaxOverrun

\* C5: no step taken in state running yields a larger timeRemaining.
C5_Monotone ==
    [][state = running => timeRemaining' <= timeRemaining]_vars

C5_Witness ==
    /\ state = running
    /\ lastEvent = "tick"
    /\ ticksRunning = 2
    /\ timeRemaining = duration - 2

\* C6: a cancel key in either state returns tea.Quit with every field of the
\* model unchanged and no tick scheduled; afterwards nothing changes.
C6_CancelFrame ==
    [][/\ lastEvent' = "cancel"
            => (quit' /\ UNCHANGED <<fields, scheduled, queued>>)
       /\ quit => UNCHANGED vars]_vars

C6_Witness ==
    /\ quit
    /\ lastEvent = "cancel"
    /\ state = running
    /\ timeRemaining = 58

\* C7: 0 <= timeRemaining <= duration in every reachable state.
C7_RemainingInRange ==
    0 <= timeRemaining /\ timeRemaining <= duration

C7_Witness ==
    /\ state = running
    /\ 0 < timeRemaining
    /\ timeRemaining < duration
    /\ duration = 660

\* C8: done implies timeRemaining = 0.
C8_DoneImpliesZero ==
    done => timeRemaining = 0

C8_Witness ==
    /\ done
    /\ timeRemaining = 0
    /\ duration = 60
    /\ lastEvent = "tick"

\* C9 as stated: after a text edit in inputtingTime that follows a failed
\* Enter, err is empty.
C9_Original ==
    (state = inputtingTime /\ lastEvent \in TextEdits) => err = ""

\* C9 as amended: a text edit leaves err as it was; err, once set, is
\* emptied only by a successful Enter.
C9_ErrOnlyClearedBySubmit ==
    [][/\ lastEvent' \in TextEdits => err' = err
       /\ (err # "" /\ err' = "")
            => (lastEvent' = "enter" /\ state = inputtingTime /\ state' = running)]_vars

C9_Witness ==
    /\ state = inputtingTime
    /\ lastEvent \in TextEdits
    /\ err = ErrMsg
    /\ textInput = <<"1">>

\* C10: until a cancel exactly one tick is in flight (armed, or delivered
\* and not yet handled): handling a tick arms exactly one successor in any
\* state, and no other message arms or drops one.
C10_OneTickInFlight ==
    /\ [](~quit => scheduled + queued = 1)
    /\ [][/\ lastEvent' = "tick"
               => (queued' = queued - 1 /\ scheduled' = scheduled + 1)
          /\ lastEvent' \notin {"tick", "timer"}
               => UNCHANGED <<scheduled, queued>>]_vars

C10_Witness ==
    /\ lastEvent = "tick"
    /\ state = running
    /\ timeRemaining = 0
    /\ ticksRunning > submitted * 60
    /\ scheduled = 1
    /\ queued = 0

\* C12: once state = running, no event returns it to inputtingTime.
C12_RunningIsStable ==
    [][state = running => state' = running]_vars

C12_Witness ==
    /\ state = running
    /\ lastEvent = "enter"
    /\ ticksRunning = 3
    /\ timeRemaining = duration - 3

\* C13: duration changes only in the step that moves state from
\* inputtingTime to running (a successful Enter); every other step leaves
\* it unchanged.
C13_DurationSetOnce ==
    [][duration' # duration
        => (lastEvent' = "enter" /\ state = inputtingTime /\ state' = running)]_vars

C13_Witness ==
    /\ state = running
    /\ duration = 600
    /\ done
    /\ lastEvent = "backspace"

\* C14: while state = inputtingTime, duration = 0 and timeRemaining = 0,
\* also after ticks, text edits and failed submissions.
C14_ZeroWhileInputting ==
    state = inputtingTime => (duration = 0 /\ timeRemaining = 0)

C14_Witness ==
    /\ state = inputtingTime
    /\ lastEvent = "tick"
    /\ err = ErrMsg
    /\ textInput = <<"-", "1">>
    /\ duration = 0
    /\ timeRemaining = 0

\* C15: a tick handled while inputtingTime leaves every field of the model
\* unchanged and only arms the next tick; the countdown that starts at the
\* submission is not shortened by earlier ticks.
C15_TickWhileInputting ==
    /\ [][(lastEvent' = "tick" /\ state = inputtingTime)
            => /\ UNCHANGED fields
               /\ scheduled' = scheduled + 1
               /\ queued' = queued - 1
               /\ UNCHANGED quit]_vars
    /\ []((state = running /\ ticksRunning = 0) => timeRemaining = submitted * 60)

C15_Witness ==
    /\ state = inputtingTime
    /\ lastEvent = "tick"
    /\ textInput = <<"1", "1">>
    /\ scheduled = 1
    /\ queued = 0
    /\ ~done

\* C19: while state = running every key other than a cancel key, Enter and
\* printable keys included, leaves the whole model unchanged and returns no
\* command.
C19_KeysIgnoredWhileRunning ==
    [][(state = running /\ lastEvent' \in {"enter", "runes", "backspace", "other"})
        => UNCHANGED <<fields, scheduled, queued, quit>>]_vars

C19_Witness ==
    /\ state = running
    /\ lastEvent = "enter"
    /\ ticksRunning = 5
    /\ timeRemaining = duration - 5
    /\ ~quit

\* C20: done holds exactly when state = running and timeRemaining = 0.
C20_DoneIffZero ==
    done <=> (state = running /\ timeRemaining = 0)

C20_Witness ==
    /\ state = running
    /\ timeRemaining = 0
    /\ done
    /\ ticksRunning = submitted * 60
    /\ lastEvent = "tick"

\* C16: with ticks delivered fairly and no cancel key, every run that
\* reaches state = running eventually has done = TRUE and timeRemaining = 0.
C16_CountdownTerminates ==
    (state = running) ~> ((done /\ timeRemaining = 0) \/ quit)

C16_Witness ==
    /\ state = running
    /\ done
    /\ timeRemaining = 0
    /\ ~quit
    /\ submitted = 10
    /\ ticksRunning = 600

\* s seconds as the claims spell it: "MM:SS" below one hour, "HH:MM:SS"
\* from one hour on, every field with at least two digits.
TwoDigits(x) == IF x < 10 THEN <<"0", DigitChar(x)>> ELSE Decimal(x)

ClockString(s) ==
    LET HH == s \div 3600
        MM == (s % 3600) \div 60
        SS == s % 60
    IN  IF s < 3600
        THEN TwoDigits(MM) \o <<":">> \o TwoDigits(SS)
        ELSE TwoDigits(HH) \o <<":">> \o TwoDigits(MM) \o <<":">> \o TwoDigits(SS)

\* C11: for a whole number of seconds s >= 0, formatDuration gives "MM:SS"
\* when s < 3600 and "HH:MM:SS" otherwise, with HH = s div 3600,
\* MM = (s mod 3600) div 60, SS = s mod 60, each zero-padded to two digits;
\* 5399 s gives "01:29:59" and 0 s gives "00:00".
C11_FormatDuration ==
    frame.view = "running" =>
        /\ frame.timeStr = ClockString(timeRemaining)
        /\ frame.elapsedStr = ClockString(duration - timeRemaining)
        /\ frame.totalStr = ClockString(duration)
        /\ timeRemaining = 5399
            => frame.timeStr = <<"0", "1", ":", "2", "9", ":", "5", "9">>
        /\ timeRemaining = 0
            => frame.timeStr = <<"0", "0", ":", "0", "0">>
        /\ timeRemaining < 3600 <=> Len(frame.timeStr) = 5

C11_Witness ==
    /\ frame.view = "running"
    /\ duration = 5400
    /\ timeRemaining = 5399
    /\ frame.timeStr = <<"0", "1", ":", "2", "9", ":", "5", "9">>
    /\ frame.elapsedStr = <<"0", "0", ":", "0", "1">>
    /\ frame.totalStr = <<"0", "1", ":", "3", "0", ":", "0", "0">>

C18_FractionDefined ==
    state = running =>
        /\ duration > 0
        /\ \A f \in Frames(state, textInput, duration, timeRemaining, done, err) :
            /\ f.view = "running"
            /\ f.fraction.kind = "finite"
            /\ f.fraction.den > 0
            /\ 0 <= f.fraction.num
            /\ f.fraction.num <= f.fraction.den
            /\ f.fraction.num = f.fraction.den <=> timeRemaining = 0
            /\ timeRemaining = 0 => f.percentage = <<"1", "0", "0", ".", "0", "%">>

C18_Witness ==
    /\ state = running
    /\ submitted = 1
    /\ ticksRunning = 60
    /\ \E f \in Frames(state, textInput, duration, timeRemaining, done, err) :
        /\ f.fraction = [kind |-> "finite", num |-> 60, den |-> 60]
        /\ f.percentage = <<"1", "0", "0", ".", "0", "%">>
        /\ f.timeStr = <<"0", "0", ":", "0", "0">>
        /\ f.doneLine

====
